---- MODULE Spec2Model ----
(***************************************************************************)
(* TrueScan: the request pipeline of backend.py (aggregation of the news   *)
(* and Reddit adapters, script composition, speech synthesis with          *)
(* fallback), the news adapter of news_scraper.py and the Reddit adapter   *)
(* of reddit_scrapper.py.                                                  *)
(*                                                                         *)
(* Texts are modelled by what the code reads of them: a fixed message of   *)
(* the code is a record naming the message and its topic; an agent reply   *)
(* is a record holding its length and which of the words "unable" and      *)
(* "error" it contains. A Python dict is a function on its key set.        *)
(***************************************************************************)
EXTENDS Integers, Sequences, FiniteSets, TLC

\* ------------------------------------------------------------------ bounds
MaxTopics == 2

Topics == {"AI", "X"}

TopicLists == UNION {[1..n -> Topics] : n \in 0..MaxTopics}

SourceTypes == {"news", "reddit", "both"}

\* The two routes run the same code up to the answer they build; the route
\* that serves the request is read where the answer is built.
Endpoints == {"generate_news_audio", "generate_news_audio_with_script"}

\* ------------------------------------------------------------- Python dict
EmptyDict == << >>

DictSet(d, k, v) == [x \in (DOMAIN d) \cup {k} |-> IF x = k THEN v ELSE d[x]]

DictGet(d, k, default) == IF k \in DOMAIN d THEN d[k] ELSE default

Keys(d) == DOMAIN d

TopicSet(ts) == {ts[j] : j \in 1..Len(ts)}

\* Position j holds the last occurrence of its topic in ts.
IsLast(ts, j) == \A k \in (j + 1)..Len(ts) : ts[k] # ts[j]

\* ------------------------------------------------------------------- state
VARIABLES
    topics,          \* request.topics
    source_type,     \* request.source_type
    pc,              \* position of the request in the handler and its callees
    results,         \* the handler's results dict
    news_i,          \* scrape_news: index of the topic of the for loop
    news_results,    \* scrape_news: results
    i,               \* scrape_reddit_topics: index of the topic of the for loop
    reddit_results,  \* scrape_reddit_topics: reddit_results
    channel,         \* stdio_client context: "unopened", "open", "closed"
    session,         \* ClientSession context: "unopened", "open", "closed"
    exc,             \* scrape_reddit_topics: an exception is propagating
    batch_failure,   \* the first step of the call that raised out of the loop's scope
    warned,          \* positions for which the short-or-error warning was printed
    composer_args,   \* the arguments generate_broadcast_news was called with
    news_summary,    \* the handler's news_summary (the script)
    audio_path,      \* the handler's audio_path
    response,        \* what the handler answers
    failed,          \* which of the composer, synthesizer and file steps failed
    calls,           \* how often each collaborator was invoked so far
    newsHist,        \* per processed position: did the topic's try block raise
    agentHist,       \* per processed position: what agent.ainvoke did
    cleaned_text,    \* extract_headlines: its argument, a string of characters
    extract_out,     \* extract_headlines: << >>, or the returned string in a tuple
    level,           \* mcp_limiter: the fill of its bucket, in units of 1/period
    batch,           \* per concurrent scrape_reddit_topics call: where it is
    now,             \* the wall clock, in ticks
    audio_dir,       \* the audio directory: file name -> request whose audio it holds
    req,             \* per request of the synthesis stage: its path and answer
    sessions,        \* the tool-provider sessions created so far, by identity
    path_param,      \* download_audio: its filename parameter, as path components
    disk,            \* download_audio: the files that exist, as resolved paths
    download         \* download_audio: its answer

handler_vars == <<topics, source_type, pc, results, news_i, news_results,
                  i, reddit_results, channel, session, exc, batch_failure, warned,
                  composer_args, news_summary, audio_path, response, failed,
                  calls, newsHist, agentHist>>

extract_vars == <<cleaned_text, extract_out>>

limiter_vars == <<level, batch>>

audio_vars == <<now, audio_dir, req>>

session_vars == <<sessions>>

download_vars == <<path_param, disk, download>>

\* The variables of the components that are exercised on their own.
side_vars == <<extract_vars, limiter_vars, audio_vars, session_vars, download_vars>>

vars == <<handler_vars, side_vars>>

request == <<topics, source_type>>

news_locals == <<news_i, news_results, newsHist>>

reddit_locals ==
    <<i, reddit_results, channel, session, exc, batch_failure, warned, agentHist>>

tail_locals == <<composer_args, news_summary, audio_path, response, failed>>

Collaborators ==
    {"scrape_news", "scrape_reddit_topics", "agent.ainvoke",
     "generate_broadcast_news", "text_to_audio_elevenlabs_sdk", "tts_to_audio",
     "asyncio.sleep(1)", "asyncio.sleep(5)"}

\* ------------------------------------------------------ order of the stages
\* A handler that composes the script right after the news stage.
stage_after_ComposeAfterNews(stage) ==
    CASE stage = "news_stage" -> "compose"
      [] stage = "reddit_stage" -> "compose"
      [] stage = "compose" -> "tts_primary"

\* The statements of the handler's body follow each other as in the source:
\* the news stage, the Reddit stage, generate_broadcast_news, the synthesis.
stage_after(stage) ==
    CASE stage = "news_stage" -> "reddit_stage"
      [] stage = "reddit_stage" -> "compose"
      [] stage = "compose" -> "tts_primary"

\* ------------------------------------------------------- source selection
\* if request.source_type in ["news", "both"]:
NewsSelected(st) == st \in {"news", "both"}

\* A copy of the news condition in place of the Reddit one.
RedditSelected_AsNews(st) == st \in {"news", "both"}

\* if request.source_type in ["reddit", "both"]:
RedditSelected(st) == st \in {"reddit", "both"}

\* ------------------------------------------------------------ news adapter
\* Where the try block of one topic raises: nowhere ("ok"), in
\* scrape_with_brightdata, clean_html_to_text, extract_headlines or
\* summarize_with_mistral_news_script.
NewsOutcomes == {"ok", "fetch", "strip", "extract", "summarize"}

Summary(t) == [kind |-> "summary", topic |-> t]

\* f"Error fetching news for '{topic}': {str(e)}"
NewsError(t) == [kind |-> "Error fetching news for", topic |-> t]

\* The except block without its assignment: a failed topic leaves no entry.
scrape_news_try_NoEntry(res, topic, o) ==
    IF o = "ok" THEN DictSet(res, topic, Summary(topic)) ELSE res

\* The try/except of one topic: results[topic] = summary, or the error string.
scrape_news_try(res, topic, o) ==
    IF o = "ok" THEN DictSet(res, topic, Summary(topic))
                ELSE DictSet(res, topic, NewsError(topic))

\* The results returned bare, without their namespace key.
\* The cooldown as the last statement of the try block: skipped when the
\* block raises.
cooldown_after_InTry(o) == o = "ok"

\* await asyncio.sleep(1) follows the try/except statement of every iteration.
cooldown_after(o) == TRUE

scrape_news_result_Bare(res) == res

\* return {"news_analysis": results}
scrape_news_result(res) == [news_analysis |-> res]

\* ---------------------------------------------------------- Reddit adapter
MIN_CONTENT_LEN == 50

\* The final message of the agent: its length and the flagged words in it.
Contents ==
    { [kind |-> "content", len |-> 49, words |-> {}],
      [kind |-> "content", len |-> 50, words |-> {}],
      [kind |-> "content", len |-> 60, words |-> {"unable"}],
      [kind |-> "content", len |-> 60, words |-> {"error"}] }

\* str(e) of a failed agent call: the signal substrings it contains.
ErrorMsgs == { {"Overloaded"}, {"429", "rate limit"}, {"rate limit"}, {} }

\* What await agent.ainvoke(...) does: a result with a final message, a result
\* of another shape (no "messages", or none in it), or an exception.
AgentOutcomes ==
    {[type |-> "message", content |-> c] : c \in Contents}
        \cup {[type |-> "unexpected"]}
        \cup {[type |-> "error", msg |-> m] : m \in ErrorMsgs}

Limited(t) == [kind |-> "Limited Reddit discussion found for", topic |-> t]

BadFormat(t) == [kind |-> "could not be retrieved in the expected format", topic |-> t]

RateLimited(t) == [kind |-> "Rate limit reached while searching for", topic |-> t]

Technical(t) == [kind |-> "Technical issue while retrieving", topic |-> t]

UnableToFetch(t) == [kind |-> "Unable to fetch Reddit discussions for", topic |-> t]

Unavailable(t) == [kind |-> "Reddit data temporarily unavailable for", topic |-> t]

\* len(text): the fixed messages are counted without their topic.
FixedLen(kind) ==
    CASE kind = "Limited Reddit discussion found for" -> 110
      [] kind = "could not be retrieved in the expected format" -> 70
      [] kind = "Rate limit reached while searching for" -> 75
      [] kind = "Technical issue while retrieving" -> 119
      [] kind = "Unable to fetch Reddit discussions for" -> 64
      [] kind = "Reddit data temporarily unavailable for" -> 40

TextLen(v) == IF v.kind = "content" THEN v.len ELSE FixedLen(v.kind) + Len(v.topic)

\* The flagged words in text.lower(); no topic of Topics contains one.
TextWords(v) ==
    IF v.kind = "content" THEN v.words
    ELSE IF v.kind = "Unable to fetch Reddit discussions for" THEN {"unable"}
    ELSE {}

\* process_topic without the length gate on the content.
process_topic_NoGate(topic, outcome) ==
    CASE outcome.type = "message" ->
            [raised |-> FALSE, value |-> outcome.content]
      [] outcome.type = "unexpected" ->
            [raised |-> FALSE, value |-> BadFormat(topic)]
      [] outcome.type = "error" ->
            IF "Overloaded" \in outcome.msg \/ "429" \in outcome.msg
            THEN [raised |-> TRUE, value |-> "MCPOverloadedError"]
            ELSE IF "rate limit" \in outcome.msg
            THEN [raised |-> FALSE, value |-> RateLimited(topic)]
            ELSE [raised |-> FALSE, value |-> Technical(topic)]

\* process_topic without the overload branch of its except block.
process_topic_NoOverloadBranch(topic, outcome) ==
    CASE outcome.type = "message" ->
            IF outcome.content.len < MIN_CONTENT_LEN
            THEN [raised |-> FALSE, value |-> Limited(topic)]
            ELSE [raised |-> FALSE, value |-> outcome.content]
      [] outcome.type = "unexpected" ->
            [raised |-> FALSE, value |-> BadFormat(topic)]
      [] outcome.type = "error" ->
            IF "rate limit" \in outcome.msg
            THEN [raised |-> FALSE, value |-> RateLimited(topic)]
            ELSE [raised |-> FALSE, value |-> Technical(topic)]

\* process_topic: the value returned, or MCPOverloadedError raised.
process_topic(topic, outcome) ==
    CASE outcome.type = "message" ->
            IF outcome.content.len < MIN_CONTENT_LEN
            THEN [raised |-> FALSE, value |-> Limited(topic)]
            ELSE [raised |-> FALSE, value |-> outcome.content]
      [] outcome.type = "unexpected" ->
            [raised |-> FALSE, value |-> BadFormat(topic)]
      [] outcome.type = "error" ->
            IF "Overloaded" \in outcome.msg \/ "429" \in outcome.msg
            THEN [raised |-> TRUE, value |-> "MCPOverloadedError"]
            ELSE IF "rate limit" \in outcome.msg
            THEN [raised |-> FALSE, value |-> RateLimited(topic)]
            ELSE [raised |-> FALSE, value |-> Technical(topic)]

\* if len(summary) < 50 or "unable" in summary.lower() or "error" in summary.lower()
ShortOrError(summary) ==
    \/ TextLen(summary) < 50
    \/ "unable" \in TextWords(summary)
    \/ "error" \in TextWords(summary)

\* The except block without its assignment: a raising topic leaves no entry.
reddit_try_NoEntry(res, topic, r) ==
    IF r.raised THEN res ELSE DictSet(res, topic, r.value)

\* The try/except of one topic in scrape_reddit_topics, given what
\* process_topic did: reddit_results after it.
reddit_try(res, topic, r) ==
    IF r.raised THEN DictSet(res, topic, UnableToFetch(topic))
                ELSE DictSet(res, topic, r.value)

\* The fallback data built with the per-topic error text of the loop.
reddit_fallback_LoopText(ts) == [t \in TopicSet(ts) |-> UnableToFetch(t)]

\* A fallback that keeps the entries the loop has stored and fills in the rest.
reddit_fallback_KeepProcessed(ts) ==
    [t \in TopicSet(ts) |->
        IF t \in DOMAIN reddit_results THEN reddit_results[t] ELSE Unavailable(t)]

\* The except block of scrape_reddit_topics: the fallback data.
reddit_fallback(ts) == [t \in TopicSet(ts) |-> Unavailable(t)]

\* A release written after the block instead of around it: skipped when an
\* exception passes.
aexit_NotOnException(state, pending) == IF pending THEN state ELSE "closed"

\* __aexit__ of an async with block: the context is released whether or not
\* an exception is passing through it.
aexit(state, pending) == "closed"

InitSteps == {"open_channel", "open_session", "initialize", "load_tools", "create_agent"}

\* ------------------------------------------- script composer, synthesizers
\* The empty string, and a local not yet assigned.
EmptyText == [kind |-> "", topic |-> ""]

NoText == [kind |-> "none"]

Truthy(text) == text.kind # ""

\* The block of one topic in generate_broadcast_news.
topic_block(news_data, reddit_data, topic) ==
    LET news_content ==
            DictGet(DictGet(news_data, "news_analysis", EmptyDict), topic, EmptyText)
        reddit_content ==
            DictGet(DictGet(reddit_data, "reddit_analysis", EmptyDict), topic, EmptyText)
    IN [topic |-> topic,
        context |->
            (IF Truthy(news_content)
             THEN <<[label |-> "OFFICIAL NEWS CONTENT", text |-> news_content]>>
             ELSE << >>)
            \o
            (IF Truthy(reddit_content)
             THEN <<[label |-> "REDDIT DISCUSSION CONTENT", text |-> reddit_content]>>
             ELSE << >>)]

\* Every topic gets a block, with or without content.
HasContext_Always(block) == TRUE

\* if context:
HasContext(block) == block.context # << >>

topic_blocks(news_data, reddit_data, ts) ==
    SelectSeq([j \in 1..Len(ts) |-> topic_block(news_data, reddit_data, ts[j])],
              HasContext)

\* "\n\n--- NEW TOPIC ---\n\n"
SEPARATOR == [piece |-> "--- NEW TOPIC ---"]

\* f"TOPIC: {topic}\n\n" + "\n\n".join(context): the heading of the topic, then
\* each labelled content.
render_block(block) ==
    <<[piece |-> "TOPIC", topic |-> block.topic]>>
    \o [k \in 1..Len(block.context) |->
          [piece |-> block.context[k].label, text |-> block.context[k].text]]

\* user_prompt = "\n\n--- NEW TOPIC ---\n\n".join(topic_blocks)
RECURSIVE user_prompt(_)
user_prompt(blocks) ==
    IF blocks = << >> THEN << >>
    ELSE IF Len(blocks) = 1 THEN render_block(blocks[1])
    ELSE render_block(blocks[1]) \o <<SEPARATOR>> \o user_prompt(Tail(blocks))

\* A composer that answers with what it has when the language-model call
\* raises.
generate_broadcast_news_Partial(news_data, reddit_data, ts, ok) ==
    [raised |-> "none",
     value |-> [kind |-> "script",
                prompt |-> IF ok
                           THEN user_prompt(topic_blocks(news_data, reddit_data, ts))
                           ELSE << >>]]

\* generate_broadcast_news: the script of the prompt, or HTTPException when
\* the language-model call raises.
generate_broadcast_news(news_data, reddit_data, ts, ok) ==
    IF ok
    THEN [raised |-> "none",
          value |-> [kind |-> "script",
                     prompt |-> user_prompt(topic_blocks(news_data, reddit_data, ts))]]
    ELSE [raised |-> "HTTPException", value |-> NoText]

\* The primary synthesizer without its except ImportError clause: the
\* missing SDK is wrapped like any other exception.
text_to_audio_elevenlabs_sdk_NoImportClause(o) ==
    CASE o = "no_api_key" -> [raised |-> "ValueError", value |-> NoText]
      [] o = "no_sdk" -> [raised |-> "HTTPException", value |-> NoText]
      [] o = "service_error" -> [raised |-> "HTTPException", value |-> NoText]
      [] o = "ok" -> [raised |-> "none",
                      value |-> [kind |-> "audio", by |-> "elevenlabs"]]

\* What the primary synthesizer meets: a file written, no API key, no SDK
\* to import, or any other exception.
PrimaryOutcomes == {"ok", "no_api_key", "no_sdk", "service_error"}

text_to_audio_elevenlabs_sdk(o) ==
    CASE o = "no_api_key" -> [raised |-> "ValueError", value |-> NoText]
      [] o = "no_sdk" -> [raised |-> "NotImplementedError", value |-> NoText]
      [] o = "service_error" -> [raised |-> "HTTPException", value |-> NoText]
      [] o = "ok" -> [raised |-> "none",
                      value |-> [kind |-> "audio", by |-> "elevenlabs"]]

\* The class of a failure of the primary synthesizer: a missing capability
\* (key or SDK) or a failure of the service.
PrimaryFailure(o) ==
    CASE o = "ok" -> {}
      [] o \in {"no_api_key", "no_sdk"} -> {"primary_capability"}
      [] o = "service_error" -> {"primary_service"}

\* except Exception as e: in place of the two capability exceptions.
FallsBack_Any(e) == TRUE

\* except (NotImplementedError, ValueError) as e:
FallsBack(e) == e \in {"NotImplementedError", "ValueError"}

FallbackOutcomes == {"ok", "gtts"}

tts_to_audio(o) ==
    IF o = "ok"
    THEN [raised |-> "none", value |-> [kind |-> "audio", by |-> "gtts"]]
    ELSE [raised |-> "HTTPException", value |-> NoText]

\* The test without the look at the file system.
audio_present_PathOnly(path, exists) == Truthy(path)

\* if not audio_path or not Path(audio_path).exists(): negated
audio_present(path, exists) == Truthy(path) /\ exists

\* The success answer of either route.
success_response(ep, script, path) ==
    IF ep = "generate_news_audio"
    THEN [status |-> 200, content |-> path]
    ELSE [status |-> 200, content |-> path, script |-> script]

\* except Exception as e: raise HTTPException(status_code=500, detail=str(e))
error_response(detail) == [status |-> 500, detail |-> detail]

\* -------------------------------------------------------- extract_headlines
\* A text is a sequence of characters: two letters, the blank and the
\* line break.
MaxTextLen == 7

Chars == {"a", "b", " ", "\n"}

Whitespace == {" ", "\n"}

Texts == UNION {[1..n -> Chars] : n \in 0..MaxTextLen}

\* cleaned_text.split('\n')
RECURSIVE split(_)
split(text) ==
    IF \A k \in 1..Len(text) : text[k] # "\n"
    THEN <<text>>
    ELSE LET p == CHOOSE k \in 1..Len(text) :
                     text[k] = "\n" /\ \A m \in 1..(k - 1) : text[m] # "\n"
         IN <<SubSeq(text, 1, p - 1)>> \o split(SubSeq(text, p + 1, Len(text)))

\* line.strip()
RECURSIVE strip(_)
strip(line) ==
    IF line = << >> THEN line
    ELSE IF Head(line) \in Whitespace THEN strip(Tail(line))
    ELSE IF line[Len(line)] \in Whitespace THEN strip(SubSeq(line, 1, Len(line) - 1))
    ELSE line

NonEmpty(line) == line # << >>

\* The comprehension without its filter: [line.strip() for line in ...]
stripped_lines_Unfiltered(text) ==
    [k \in 1..Len(split(text)) |-> strip(split(text)[k])]

\* lines = [line.strip() for line in cleaned_text.split('\n') if line.strip()]
stripped_lines(text) ==
    LET raw == split(text)
    IN SelectSeq([k \in 1..Len(raw) |-> strip(raw[k])], NonEmpty)

\* A loop that closes a block on every line and so keeps every line.
RECURSIVE headline_loop_KeepAll(_, _, _)
headline_loop_KeepAll(ls, headlines, current_block) ==
    IF ls = << >> THEN headlines
    ELSE headline_loop_KeepAll(Tail(ls), Append(headlines, Head(ls)), << >>)

\* A loop that keeps the line that closes a block in place of the buffered one.
RECURSIVE headline_loop_KeepClosing(_, _, _)
headline_loop_KeepClosing(ls, headlines, current_block) ==
    IF ls = << >>
    THEN IF current_block # << >>
         THEN Append(headlines, current_block[1])
         ELSE headlines
    ELSE IF current_block # << >>
    THEN headline_loop_KeepClosing(Tail(ls), Append(headlines, Head(ls)), << >>)
    ELSE headline_loop_KeepClosing(Tail(ls), headlines, Append(current_block, Head(ls)))

\* for line in lines: ... and the flush after the loop. A line met while the
\* buffer holds one closes the block and is dropped; otherwise it is buffered.
RECURSIVE headline_loop(_, _, _)
headline_loop(ls, headlines, current_block) ==
    IF ls = << >>
    THEN IF current_block # << >>
         THEN Append(headlines, current_block[1])
         ELSE headlines
    ELSE IF current_block # << >>
    THEN headline_loop(Tail(ls), Append(headlines, current_block[1]), << >>)
    ELSE headline_loop(Tail(ls), headlines, Append(current_block, Head(ls)))

\* "\n".join(headlines)
RECURSIVE join(_)
join(hs) ==
    IF hs = << >> THEN << >>
    ELSE IF Len(hs) = 1 THEN hs[1]
    ELSE hs[1] \o <<"\n">> \o join(Tail(hs))

extract_headlines(text) ==
    join(headline_loop(stripped_lines(text), << >>, << >>))

\* --------------------------------------------------------------- mcp_limiter
\* mcp_limiter = AsyncLimiter(1, 5): a leaky bucket of capacity max_rate that
\* empties at max_rate per time_period seconds. The fill is counted in units
\* of 1/time_period, so that one second leaks max_rate units and one
\* acquisition adds time_period units.
LIMITER_MAX_RATE == 1

LIMITER_TIME_PERIOD == 5

\* await asyncio.sleep(5)
TOPIC_DELAY == 5

MaxBatches == 2

Batches == 1..MaxBatches

\* AsyncLimiter._leak, for one second elapsed
leak(l) == IF l > LIMITER_MAX_RATE THEN l - LIMITER_MAX_RATE ELSE 0

\* AsyncLimiter.has_capacity(1): self._level + amount <= self.max_rate
has_capacity(l) ==
    l + LIMITER_TIME_PERIOD <= LIMITER_MAX_RATE * LIMITER_TIME_PERIOD

\* The calls of agent.ainvoke that have started and not returned.
InFlight == {b \in DOMAIN batch : batch[b].pc = "ainvoke"}

\* --------------------------------------------------- tool-provider sessions
\* One session object kept at module level and handed to every call.
client_session_Shared(ss) == 1

\* ClientSession(read, write) inside the call: a new object, on the channel
\* of a new stdio_client process, each time the statement runs.
client_session(ss) == Len(ss) + 1

\* ------------------------------------------------------------ audio files
TicksPerSecond == 2

MaxClock == 4

MaxRequests == 2

Requests == 1..MaxRequests

Synthesizers == {"text_to_audio_elevenlabs_sdk", "tts_to_audio"}

\* AUDIO_DIR of tts_to_audio, output_dir="audio" of the primary synthesizer
output_dir(synthesizer) ==
    IF synthesizer = "tts_to_audio" THEN "audio" ELSE "audio"

\* datetime.now().strftime("%Y%m%d_%H%M%S"): the clock down to the second
strftime(t) == t \div TicksPerSecond

\* AUDIO_DIR / f"tts_{timestamp}.mp3", Path(output_dir) / f"tts_{...}.mp3"
audio_filename(synthesizer, t) ==
    [dir |-> output_dir(synthesizer), prefix |-> "tts_",
     stamp |-> strftime(t), suffix |-> ".mp3"]

\* ----------------------------------------------------------- download_audio
\* A path is the sequence of its components. The server runs in the
\* directory /app, which holds the directory audio; audio holds files only.
MaxPathLen == 3

PathParts == {"..", "sub", "audio", "tts.mp3"}

FileNames == UNION {[1..n -> PathParts] : n \in 1..MaxPathLen}

CWD == <<"app">>

\* Path("audio")
AUDIO_PATH == <<"audio">>

DirsOnDisk == {<< >>, <<"app">>, <<"app", "audio">>}

FilesOnDisk == {<<"app", "audio", "tts.mp3">>, <<"app", "tts.mp3">>}

\* Path.parent; the root is its own parent
parent(path) == IF path = << >> THEN path ELSE SubSeq(path, 1, Len(path) - 1)

\* One component applied to an absolute path.
step(path, part) == IF part = ".." THEN parent(path) ELSE Append(path, part)

\* Path.resolve(): the absolute path with every ".." applied (no symbolic
\* links on the disk)
RECURSIVE resolve_from(_, _)
resolve_from(base, path) ==
    IF path = << >> THEN base
    ELSE resolve_from(step(base, Head(path)), Tail(path))

resolve(path) == resolve_from(CWD, path)

\* Path.exists(): the operating system follows the components one by one,
\* each from an existing directory, to an existing file or directory.
RECURSIVE exists_from(_, _, _)
exists_from(base, path, files) ==
    IF path = << >> THEN base \in files \cup DirsOnDisk
    ELSE /\ base \in DirsOnDisk
         /\ exists_from(step(base, Head(path)), Tail(path), files)

path_exists(path, files) == exists_from(CWD, path, files)

\* if not audio_path.resolve().parent == Path("audio").resolve(): negated
in_audio_dir(path) == parent(resolve(path)) = resolve(AUDIO_PATH)

\* download_audio: the two HTTPException raised in the try block are caught by
\* its except Exception clause and raised again with status 500 and the text
\* of the caught one; otherwise the file response.
download_audio_answer(name, files) ==
    LET file_path == AUDIO_PATH \o name
    IN IF ~in_audio_dir(file_path)
       THEN error_response("403: Access denied")
       ELSE IF ~path_exists(file_path, files)
       THEN error_response("404: Audio file not found")
       ELSE [status |-> 200, path |-> file_path]

\* ------------------------------------------------------------------- Init
\* The locals of the handler and of its callees before the handler's body runs.
HandlerStart ==
    /\ results = EmptyDict
    /\ news_i = 0
    /\ news_results = EmptyDict
    /\ i = 0
    /\ reddit_results = EmptyDict
    /\ channel = "unopened"
    /\ session = "unopened"
    /\ exc = FALSE
    /\ batch_failure = ""
    /\ warned = {}
    /\ composer_args = << >>
    /\ news_summary = NoText
    /\ audio_path = NoText
    /\ response = [status |-> 0]
    /\ failed = {}
    /\ calls = [c \in Collaborators |-> 0]
    /\ newsHist = << >>
    /\ agentHist = << >>

\* No request is being handled.
HandlerIdle ==
    /\ topics = << >>
    /\ source_type = "news"
    /\ pc = "idle"
    /\ HandlerStart

\* The components exercised on their own are at rest.
SideIdle ==
    /\ cleaned_text = << >>
    /\ extract_out = << >>
    /\ level = 0
    /\ batch = << >>
    /\ now = 0
    /\ audio_dir = EmptyDict
    /\ req = << >>
    /\ sessions = << >>
    /\ path_param = << >>
    /\ disk = {}
    /\ download = [status |-> 0]

Init ==
    /\ topics \in TopicLists
    /\ source_type \in SourceTypes
    /\ pc = "news_stage"
    /\ HandlerStart
    /\ SideIdle

\* ------------------------------------------------- handler: the news stage
\* if request.source_type in ["news", "both"]: results["news"] = await scrape_news(...)
news_stage ==
    /\ pc = "news_stage"
    /\ IF NewsSelected(source_type)
       THEN /\ pc' = "news_loop"
            /\ news_i' = 1
            /\ news_results' = EmptyDict
            /\ calls' = [calls EXCEPT !["scrape_news"] = @ + 1]
       ELSE /\ pc' = stage_after("news_stage")
            /\ UNCHANGED <<news_i, news_results, calls>>
    /\ UNCHANGED <<request, results, newsHist, reddit_locals, tail_locals>>
    /\ UNCHANGED side_vars

\* One iteration of the for loop up to the cooldown: the try block, with the
\* stage of it that raises (or none), and the except block.
scrape_news_topic ==
    /\ pc = "news_loop"
    /\ news_i <= Len(topics)
    /\ \E o \in NewsOutcomes :
          /\ news_results' = scrape_news_try(news_results, topics[news_i], o)
          /\ newsHist' = Append(newsHist, IF o = "ok" THEN "ok" ELSE "failed")
          /\ IF cooldown_after(o)
             THEN pc' = "news_sleep" /\ UNCHANGED news_i
             ELSE pc' = "news_loop" /\ news_i' = news_i + 1
    /\ UNCHANGED <<request, results, calls, reddit_locals, tail_locals>>
    /\ UNCHANGED side_vars

\* await asyncio.sleep(1), then the next topic
scrape_news_sleep ==
    /\ pc = "news_sleep"
    /\ news_i' = news_i + 1
    /\ pc' = "news_loop"
    /\ calls' = [calls EXCEPT !["asyncio.sleep(1)"] = @ + 1]
    /\ UNCHANGED <<request, results, news_results, newsHist, reddit_locals, tail_locals>>
    /\ UNCHANGED side_vars

\* return {"news_analysis": results}, which the handler stores in results["news"]
scrape_news_return ==
    /\ pc = "news_loop"
    /\ news_i > Len(topics)
    /\ results' = DictSet(results, "news", scrape_news_result(news_results))
    /\ pc' = stage_after("news_stage")
    /\ UNCHANGED <<request, news_locals, calls, reddit_locals, tail_locals>>
    /\ UNCHANGED side_vars

\* ----------------------------------------------- handler: the Reddit stage
\* if request.source_type in ["reddit", "both"]: results["reddit"] = await scrape_reddit_topics(...)
reddit_stage ==
    /\ pc = "reddit_stage"
    /\ IF RedditSelected(source_type)
       THEN /\ pc' = "open_channel"
            /\ calls' = [calls EXCEPT !["scrape_reddit_topics"] = @ + 1]
       ELSE /\ pc' = stage_after("reddit_stage")
            /\ UNCHANGED calls
    /\ UNCHANGED <<request, results, news_locals, reddit_locals, tail_locals>>
    /\ UNCHANGED side_vars

\* async with stdio_client(server_params) as (read, write): entering
open_channel ==
    /\ pc = "open_channel"
    /\ \E ok \in BOOLEAN :
          IF ok THEN /\ channel' = "open"
                     /\ pc' = "open_session"
                     /\ UNCHANGED <<exc, batch_failure>>
                ELSE /\ exc' = TRUE
                     /\ batch_failure' = "open_channel"
                     /\ pc' = "reddit_except"
                     /\ UNCHANGED channel
    /\ UNCHANGED <<request, results, news_locals, calls, tail_locals,
                   i, reddit_results, session, warned, agentHist>>
    /\ UNCHANGED side_vars

\* async with ClientSession(read, write) as session: entering
open_session ==
    /\ pc = "open_session"
    /\ \E ok \in BOOLEAN :
          IF ok THEN /\ session' = "open"
                     /\ pc' = "initialize"
                     /\ UNCHANGED <<exc, batch_failure>>
                ELSE /\ exc' = TRUE
                     /\ batch_failure' = "open_session"
                     /\ pc' = "exit_channel"
                     /\ UNCHANGED session
    /\ UNCHANGED <<request, results, news_locals, calls, tail_locals,
                   i, reddit_results, channel, warned, agentHist>>
    /\ UNCHANGED side_vars

\* A step of the session's set-up that either succeeds or raises into the
\* two async with blocks.
SetupStep(here, next) ==
    /\ pc = here
    /\ \E ok \in BOOLEAN :
          IF ok THEN /\ pc' = next
                     /\ UNCHANGED <<exc, batch_failure>>
                ELSE /\ exc' = TRUE
                     /\ batch_failure' = here
                     /\ pc' = "exit_session"
    /\ UNCHANGED <<request, results, news_locals, calls, tail_locals,
                   channel, session, warned, agentHist>>
    /\ UNCHANGED side_vars

\* await session.initialize()
initialize ==
    /\ SetupStep("initialize", "load_tools")
    /\ UNCHANGED <<i, reddit_results>>

\* mcp_tools = await load_mcp_tools(session)
load_tools ==
    /\ SetupStep("load_tools", "create_agent")
    /\ UNCHANGED <<i, reddit_results>>

\* agent = create_react_agent(...); reddit_results = {}; the loop starts
create_agent ==
    /\ SetupStep("create_agent", "reddit_loop")
    /\ IF pc' = "reddit_loop"
       THEN i' = 1 /\ reddit_results' = EmptyDict
       ELSE UNCHANGED <<i, reddit_results>>

\* One iteration of the for loop up to the delay: process_topic with what the
\* agent call does, the warning, the store, or the except block.
reddit_topic ==
    /\ pc = "reddit_loop"
    /\ i <= Len(topics)
    /\ \E o \in AgentOutcomes :
          LET r == process_topic(topics[i], o) IN
          /\ agentHist' = Append(agentHist, o)
          /\ reddit_results' = reddit_try(reddit_results, topics[i], r)
          /\ warned' = IF ~r.raised /\ ShortOrError(r.value)
                       THEN warned \cup {i} ELSE warned
          /\ IF ~r.raised /\ i < Len(topics)
             THEN pc' = "reddit_sleep" /\ UNCHANGED i
             ELSE pc' = "reddit_loop" /\ i' = i + 1
    /\ calls' = [calls EXCEPT !["agent.ainvoke"] = @ + 1]
    /\ UNCHANGED <<request, results, news_locals, tail_locals,
                   channel, session, exc, batch_failure>>
    /\ UNCHANGED side_vars

\* await asyncio.sleep(5), then the next topic
reddit_sleep ==
    /\ pc = "reddit_sleep"
    /\ i' = i + 1
    /\ pc' = "reddit_loop"
    /\ calls' = [calls EXCEPT !["asyncio.sleep(5)"] = @ + 1]
    /\ UNCHANGED <<request, results, news_locals, tail_locals,
                   reddit_results, channel, session, exc, batch_failure, warned,
                   agentHist>>
    /\ UNCHANGED side_vars

\* return {"reddit_analysis": reddit_results}: leaves the two async with blocks
reddit_loop_end ==
    /\ pc = "reddit_loop"
    /\ i > Len(topics)
    /\ pc' = "exit_session"
    /\ UNCHANGED <<request, results, news_locals, calls, reddit_locals, tail_locals>>
    /\ UNCHANGED side_vars

\* An exception raised by an __aexit__ replaces the one passing through it.
ExitRaises(ok) ==
    /\ exc' = (exc \/ ~ok)
    /\ batch_failure' = IF ~ok /\ batch_failure = "" THEN "teardown" ELSE batch_failure

\* ClientSession.__aexit__, which may itself raise
exit_session ==
    /\ pc = "exit_session"
    /\ session' = aexit(session, exc)
    /\ \E ok \in BOOLEAN : ExitRaises(ok)
    /\ pc' = "exit_channel"
    /\ UNCHANGED <<request, results, news_locals, calls, tail_locals,
                   i, reddit_results, channel, warned, agentHist>>
    /\ UNCHANGED side_vars

\* stdio_client's __aexit__, which may itself raise
exit_channel ==
    /\ pc = "exit_channel"
    /\ channel' = aexit(channel, exc)
    /\ \E ok \in BOOLEAN : ExitRaises(ok)
    /\ pc' = IF exc' THEN "reddit_except" ELSE "reddit_return"
    /\ UNCHANGED <<request, results, news_locals, calls, tail_locals,
                   i, reddit_results, session, warned, agentHist>>
    /\ UNCHANGED side_vars

\* The return statement's value reaches the handler: results["reddit"] = ...
reddit_return ==
    /\ pc = "reddit_return"
    /\ results' = DictSet(results, "reddit", [reddit_analysis |-> reddit_results])
    /\ pc' = stage_after("reddit_stage")
    /\ UNCHANGED <<request, news_locals, calls, reddit_locals, tail_locals>>
    /\ UNCHANGED side_vars

\* except Exception: return the fallback data
reddit_except ==
    /\ pc = "reddit_except"
    /\ exc' = FALSE
    /\ results' = DictSet(results, "reddit", [reddit_analysis |-> reddit_fallback(topics)])
    /\ pc' = stage_after("reddit_stage")
    /\ UNCHANGED <<request, news_locals, calls, tail_locals,
                   i, reddit_results, channel, session, batch_failure, warned,
                   agentHist>>
    /\ UNCHANGED side_vars

\* ------------------------------------------- handler: script and audio
\* news_data = results.get("news", {}); reddit_data = results.get("reddit", {});
\* news_summary = generate_broadcast_news(...)
compose ==
    /\ pc = "compose"
    /\ \E ok \in BOOLEAN :
          LET news_data == DictGet(results, "news", EmptyDict)
              reddit_data == DictGet(results, "reddit", EmptyDict)
              r == generate_broadcast_news(news_data, reddit_data, topics, ok)
          IN /\ composer_args' =
                    <<[news_data |-> news_data, reddit_data |-> reddit_data]>>
             /\ IF r.raised = "none"
                THEN /\ news_summary' = r.value
                     /\ pc' = stage_after("compose")
                     /\ UNCHANGED response
                ELSE /\ response' = error_response("generate_broadcast_news")
                     /\ pc' = "done"
                     /\ UNCHANGED news_summary
             /\ failed' = IF ok THEN failed ELSE failed \cup {"compose"}
    /\ calls' = [calls EXCEPT !["generate_broadcast_news"] = @ + 1]
    /\ UNCHANGED <<request, results, news_locals, reddit_locals, audio_path>>
    /\ UNCHANGED side_vars

\* try: audio_path = text_to_audio_elevenlabs_sdk(...)
\* except (NotImplementedError, ValueError): to the fallback
tts_primary ==
    /\ pc = "tts_primary"
    /\ \E o \in PrimaryOutcomes :
          LET r == text_to_audio_elevenlabs_sdk(o) IN
          /\ failed' = failed \cup PrimaryFailure(o)
          /\ IF r.raised = "none"
             THEN /\ audio_path' = r.value
                  /\ pc' = "check_audio"
                  /\ UNCHANGED response
             ELSE IF FallsBack(r.raised)
             THEN /\ pc' = "tts_fallback"
                  /\ UNCHANGED <<audio_path, response>>
             ELSE /\ response' = error_response("text_to_audio_elevenlabs_sdk")
                  /\ pc' = "done"
                  /\ UNCHANGED audio_path
    /\ calls' = [calls EXCEPT !["text_to_audio_elevenlabs_sdk"] = @ + 1]
    /\ UNCHANGED <<request, results, news_locals, reddit_locals,
                   composer_args, news_summary>>
    /\ UNCHANGED side_vars

\* audio_path = tts_to_audio(text=news_summary, language="en")
tts_fallback ==
    /\ pc = "tts_fallback"
    /\ \E o \in FallbackOutcomes :
          LET r == tts_to_audio(o) IN
          /\ failed' = IF o = "ok" THEN failed ELSE failed \cup {o}
          /\ IF r.raised = "none"
             THEN /\ audio_path' = r.value
                  /\ pc' = "check_audio"
                  /\ UNCHANGED response
             ELSE /\ response' = error_response("tts_to_audio")
                  /\ pc' = "done"
                  /\ UNCHANGED audio_path
    /\ calls' = [calls EXCEPT !["tts_to_audio"] = @ + 1]
    /\ UNCHANGED <<request, results, news_locals, reddit_locals,
                   composer_args, news_summary>>
    /\ UNCHANGED side_vars

\* if not audio_path or not Path(audio_path).exists(): raise HTTPException(...)
\* else the success answer
check_audio ==
    /\ pc = "check_audio"
    /\ \E exists \in BOOLEAN, endpoint \in Endpoints :
          /\ IF audio_present(audio_path, exists)
             THEN response' = success_response(endpoint, news_summary, audio_path)
             ELSE response' = error_response("Audio file generation failed")
          /\ failed' = IF exists THEN failed ELSE failed \cup {"audio_missing"}
    /\ pc' = "done"
    /\ UNCHANGED <<request, results, news_locals, reddit_locals, calls,
                   composer_args, news_summary, audio_path>>
    /\ UNCHANGED side_vars

Next ==
    \/ news_stage
    \/ scrape_news_topic
    \/ scrape_news_sleep
    \/ scrape_news_return
    \/ reddit_stage
    \/ open_channel
    \/ open_session
    \/ initialize
    \/ load_tools
    \/ create_agent
    \/ reddit_topic
    \/ reddit_sleep
    \/ reddit_loop_end
    \/ exit_session
    \/ exit_channel
    \/ reddit_return
    \/ reddit_except
    \/ compose
    \/ tts_primary
    \/ tts_fallback
    \/ check_audio

Spec == Init /\ [][Next]_vars

\* --------------------------------------- generate_broadcast_news on its own
\* What the news mapping can hold for a topic: a summary, the empty string the
\* language model may answer with, or the error text of the except block.
NewsEntries(t) == {Summary(t), EmptyText, NewsError(t)}

\* What the social mapping can hold for a topic.
RedditEntries(t) ==
    {Limited(t), Unavailable(t)}
    \cup {c \in Contents : c.len >= MIN_CONTENT_LEN /\ c.words = {}}

\* The results dict of the handler after the two stages, for any content of
\* the mappings of the selected adapters.
ResultDicts(ts, st) ==
    LET news == {[news_analysis |-> f] :
                    f \in {g \in [TopicSet(ts) -> UNION {NewsEntries(t) : t \in Topics}] :
                              \A t \in TopicSet(ts) : g[t] \in NewsEntries(t)}}
        reddit == {[reddit_analysis |-> f] :
                    f \in {g \in [TopicSet(ts) -> UNION {RedditEntries(t) : t \in Topics}] :
                              \A t \in TopicSet(ts) : g[t] \in RedditEntries(t)}}
    IN CASE st = "news" -> {[x \in {"news"} |-> n] : n \in news}
         [] st = "reddit" -> {[x \in {"reddit"} |-> r] : r \in reddit}
         [] st = "both" -> {[news |-> n, reddit |-> r] : n \in news, r \in reddit}

\* The handler is about to call generate_broadcast_news.
InitCompose ==
    /\ topics \in TopicLists
    /\ source_type \in SourceTypes
    /\ pc = "compose"
    /\ results \in ResultDicts(topics, source_type)
    /\ news_i = 0
    /\ news_results = EmptyDict
    /\ i = 0
    /\ reddit_results = EmptyDict
    /\ channel = "unopened"
    /\ session = "unopened"
    /\ exc = FALSE
    /\ batch_failure = ""
    /\ warned = {}
    /\ composer_args = << >>
    /\ news_summary = NoText
    /\ audio_path = NoText
    /\ response = [status |-> 0]
    /\ failed = {}
    /\ calls = [c \in Collaborators |-> 0]
    /\ newsHist = << >>
    /\ agentHist = << >>
    /\ SideIdle

NextCompose == compose

SpecCompose == InitCompose /\ [][NextCompose]_vars

\* ------------------------------------- concurrent scrape_reddit_topics calls
\* Each call has its session and agent and is at the entry of process_topic
\* for its first topic; left counts the topics it has still to process.
InitLimiter ==
    /\ HandlerIdle
    /\ cleaned_text = << >>
    /\ extract_out = << >>
    /\ level = 0
    /\ batch \in [Batches -> {[pc |-> "acquire", left |-> n, timer |-> 0] :
                                  n \in 1..MaxTopics}]
    /\ now = 0
    /\ audio_dir = EmptyDict
    /\ req = << >>
    /\ sessions = << >>
    /\ path_param = << >>
    /\ disk = {}
    /\ download = [status |-> 0]

\* async with mcp_limiter: __aenter__ awaits acquire(), which returns once
\* the bucket has room for one more; then agent.ainvoke is started.
limiter_acquire(b) ==
    /\ batch[b].pc = "acquire"
    /\ has_capacity(level)
    /\ level' = level + LIMITER_TIME_PERIOD
    /\ batch' = [batch EXCEPT ![b].pc = "ainvoke"]
    /\ UNCHANGED <<handler_vars, session_vars, download_vars, extract_vars, audio_vars>>

\* agent.ainvoke returns or raises; the limiter's __aexit__ does nothing.
\* After the last topic the loop ends; after another one comes the delay,
\* unless process_topic raised.
ainvoke_returns(b) ==
    /\ batch[b].pc = "ainvoke"
    /\ \E raised \in BOOLEAN :
          batch' = [batch EXCEPT ![b] =
                      IF @.left = 1 THEN [pc |-> "done", left |-> 0, timer |-> 0]
                      ELSE IF raised
                      THEN [pc |-> "acquire", left |-> @.left - 1, timer |-> 0]
                      ELSE [pc |-> "sleep", left |-> @.left, timer |-> TOPIC_DELAY]]
    /\ UNCHANGED <<handler_vars, session_vars, download_vars, extract_vars, level, audio_vars>>

\* await asyncio.sleep(5) is over: the next topic
sleep_returns(b) ==
    /\ batch[b].pc = "sleep"
    /\ batch[b].timer = 0
    /\ batch' = [batch EXCEPT ![b] = [pc |-> "acquire", left |-> @.left - 1, timer |-> 0]]
    /\ UNCHANGED <<handler_vars, session_vars, download_vars, extract_vars, level, audio_vars>>

\* One second passes: the bucket leaks and the sleeping calls come closer
\* to waking up.
second_passes ==
    /\ level > 0 \/ \E b \in Batches : batch[b].timer > 0
    /\ level' = leak(level)
    /\ batch' = [b \in Batches |->
                    [batch[b] EXCEPT !.timer = IF @ > 0 THEN @ - 1 ELSE 0]]
    /\ UNCHANGED <<handler_vars, session_vars, download_vars, extract_vars, audio_vars>>

NextLimiter ==
    \/ \E b \in Batches : limiter_acquire(b)
    \/ \E b \in Batches : ainvoke_returns(b)
    \/ \E b \in Batches : sleep_returns(b)
    \/ second_passes

SpecLimiter == InitLimiter /\ [][NextLimiter]_vars

\* ------------------------- concurrent scrape_reddit_topics calls: sessions
\* Each call is about to enter its async with blocks. session is the local
\* of that name, tools the session the agent's tools were loaded from.
InitSessions ==
    /\ HandlerIdle
    /\ cleaned_text = << >>
    /\ extract_out = << >>
    /\ level = 0
    /\ batch \in [Batches -> {[pc |-> "open_session", session |-> 0, tools |-> 0,
                                left |-> n] : n \in 1..MaxTopics}]
    /\ now = 0
    /\ audio_dir = EmptyDict
    /\ req = << >>
    /\ sessions = << >>
    /\ path_param = << >>
    /\ disk = {}
    /\ download = [status |-> 0]

\* async with stdio_client(...) as (read, write):
\*     async with ClientSession(read, write) as session:
batch_open_session(b) ==
    /\ batch[b].pc = "open_session"
    /\ LET id == client_session(sessions) IN
          /\ sessions' = IF id \in DOMAIN sessions
                          THEN [sessions EXCEPT ![id].state = "open"]
                          ELSE Append(sessions, [opened_by |-> b, state |-> "open"])
          /\ batch' = [batch EXCEPT ![b].pc = "load_tools", ![b].session = id]
    /\ UNCHANGED <<handler_vars, download_vars, extract_vars, level, audio_vars>>

\* await session.initialize(); mcp_tools = await load_mcp_tools(session);
\* agent = create_react_agent(llm, mcp_tools): the agent's tools are bound to
\* the call's own local session. Any of the three may raise.
batch_load_tools(b) ==
    /\ batch[b].pc = "load_tools"
    /\ \E ok \in BOOLEAN :
          batch' = [batch EXCEPT ![b] =
                      IF ok THEN [@ EXCEPT !.pc = "loop", !.tools = batch[b].session]
                            ELSE [@ EXCEPT !.pc = "exit_session"]]
    /\ UNCHANGED <<handler_vars, session_vars, download_vars, extract_vars, level, audio_vars>>

\* summary = await process_topic(agent, topic): agent.ainvoke is started
batch_ainvoke(b) ==
    /\ batch[b].pc = "loop"
    /\ batch[b].left > 0
    /\ batch' = [batch EXCEPT ![b].pc = "ainvoke"]
    /\ UNCHANGED <<handler_vars, session_vars, download_vars, extract_vars, level, audio_vars>>

\* agent.ainvoke returns or raises; the loop goes on
batch_ainvoke_returns(b) ==
    /\ batch[b].pc = "ainvoke"
    /\ batch' = [batch EXCEPT ![b].pc = "loop", ![b].left = @ - 1]
    /\ UNCHANGED <<handler_vars, session_vars, download_vars, extract_vars, level, audio_vars>>

\* The loop is over: the return statement leaves the async with blocks.
batch_loop_end(b) ==
    /\ batch[b].pc = "loop"
    /\ batch[b].left = 0
    /\ batch' = [batch EXCEPT ![b].pc = "exit_session"]
    /\ UNCHANGED <<handler_vars, session_vars, download_vars, extract_vars, level, audio_vars>>

\* ClientSession.__aexit__ and stdio_client's __aexit__ of the call's own
\* context managers
batch_exit_session(b) ==
    /\ batch[b].pc = "exit_session"
    /\ sessions' = [sessions EXCEPT ![batch[b].session].state = "closed"]
    /\ batch' = [batch EXCEPT ![b].pc = "done"]
    /\ UNCHANGED <<handler_vars, download_vars, extract_vars, level, audio_vars>>

NextSessions ==
    \/ \E b \in Batches : batch_open_session(b)
    \/ \E b \in Batches : batch_load_tools(b)
    \/ \E b \in Batches : batch_ainvoke(b)
    \/ \E b \in Batches : batch_ainvoke_returns(b)
    \/ \E b \in Batches : batch_loop_end(b)
    \/ \E b \in Batches : batch_exit_session(b)

SpecSessions == InitSessions /\ [][NextSessions]_vars

\* ------------------------------------------------- download_audio on its own
\* Any file name of the bounded set is asked for, with any of the files there.
InitDownload ==
    /\ HandlerIdle
    /\ cleaned_text = << >>
    /\ extract_out = << >>
    /\ level = 0
    /\ batch = << >>
    /\ now = 0
    /\ audio_dir = EmptyDict
    /\ req = << >>
    /\ sessions = << >>
    /\ path_param \in FileNames
    /\ disk \in SUBSET FilesOnDisk
    /\ download = [status |-> 0]

\* GET /download-audio/{filename}
get_download_audio ==
    /\ download.status = 0
    /\ download' = download_audio_answer(path_param, disk)
    /\ UNCHANGED <<handler_vars, session_vars, extract_vars, limiter_vars,
                   audio_vars, path_param, disk>>

NextDownload == get_download_audio

SpecDownload == InitDownload /\ [][NextDownload]_vars

\* ------------------------------------------------- the synthesis stage alone
\* Each request has its script and is about to synthesize it.
InitAudio ==
    /\ HandlerIdle
    /\ cleaned_text = << >>
    /\ extract_out = << >>
    /\ level = 0
    /\ batch = << >>
    /\ now = 0
    /\ audio_dir = EmptyDict
    /\ req = [r \in Requests |-> [pc |-> "synthesize", path |-> << >>, served |-> << >>]]
    /\ sessions = << >>
    /\ path_param = << >>
    /\ disk = {}
    /\ download = [status |-> 0]

\* Either synthesizer writes the audio of request r to the file named by the
\* clock. generate_news_audio then reads the file and answers with its bytes;
\* generate_news_audio_with_script answers with the path.
synthesize(r) ==
    /\ req[r].pc = "synthesize"
    /\ \E synthesizer \in Synthesizers, endpoint \in Endpoints :
          LET filename == audio_filename(synthesizer, now) IN
          /\ audio_dir' = DictSet(audio_dir, filename, r)
          /\ req' = [req EXCEPT ![r] =
                        IF endpoint = "generate_news_audio"
                        THEN [pc |-> "done", path |-> <<filename>>,
                              served |-> <<audio_dir'[filename]>>]
                        ELSE [pc |-> "answered", path |-> <<filename>>,
                              served |-> << >>]]
    /\ UNCHANGED <<handler_vars, session_vars, download_vars, extract_vars, limiter_vars, now>>

\* GET /download-audio/{filename} with the path request r was answered with
download_audio(r) ==
    /\ req[r].pc = "answered"
    /\ req' = [req EXCEPT ![r] =
                  [pc |-> "done", path |-> @.path,
                   served |-> <<audio_dir[@.path[1]]>>]]
    /\ UNCHANGED <<handler_vars, session_vars, download_vars, extract_vars, limiter_vars, now, audio_dir>>

\* The clock advances.
clock_tick ==
    /\ now < MaxClock
    /\ now' = now + 1
    /\ UNCHANGED <<handler_vars, session_vars, download_vars, extract_vars, limiter_vars, audio_dir, req>>

NextAudio ==
    \/ \E r \in Requests : synthesize(r)
    \/ \E r \in Requests : download_audio(r)
    \/ clock_tick

SpecAudio == InitAudio /\ [][NextAudio]_vars

\* --------------------------------------------- extract_headlines on its own
\* Any text of the bounded alphabet is handed to extract_headlines.
InitExtract ==
    /\ HandlerIdle
    /\ cleaned_text \in Texts
    /\ extract_out = << >>
    /\ level = 0
    /\ batch = << >>
    /\ now = 0
    /\ audio_dir = EmptyDict
    /\ req = << >>
    /\ sessions = << >>
    /\ path_param = << >>
    /\ disk = {}
    /\ download = [status |-> 0]

\* headlines = extract_headlines(cleaned_text)
call_extract_headlines ==
    /\ extract_out = << >>
    /\ extract_out' = <<extract_headlines(cleaned_text)>>
    /\ UNCHANGED <<handler_vars, session_vars, download_vars, cleaned_text, limiter_vars, audio_vars>>

NextExtract == call_extract_headlines

SpecExtract == InitExtract /\ [][NextExtract]_vars

\* ------------------------------------------------------------- properties
\* The positions of the request inside scrape_reddit_topics.
RedditPcs ==
    {"open_channel", "open_session", "initialize", "load_tools", "create_agent",
     "reddit_loop", "reddit_sleep", "exit_session", "exit_channel",
     "reddit_return", "reddit_except"}

\* scrape_reddit_topics has returned to the handler.
RedditReturned == "reddit" \in Keys(results)

\* scrape_news has returned to the handler.
NewsReturned == "news" \in Keys(results)

\* The mapping scrape_reddit_topics returned.
RedditMapping == results["reddit"].reddit_analysis

IsShortMessage(o) == o.type = "message" /\ o.content.len < 50

IsOverload(o) == o.type = "error" /\ ("Overloaded" \in o.msg \/ "429" \in o.msg)

\* C1: scrape_reddit_topics never raises to its caller (no exception is
\* propagating once the request has left the call, and a call that was made
\* has handed its value to the handler), and the value is a mapping under
\* "reddit_analysis" whose key set is exactly the set of requested topics,
\* whatever the set-up steps and the agent calls did.
C1_RedditAlwaysCompleteMapping ==
    /\ exc => pc \in RedditPcs
    /\ (calls["scrape_reddit_topics"] > 0 /\ pc \notin RedditPcs) => RedditReturned
    /\ RedditReturned =>
          /\ Keys(results["reddit"]) = {"reddit_analysis"}
          /\ Keys(RedditMapping) = TopicSet(topics)

\* C1 witness: the call returned the loop's results for two different topics,
\* the first agent call having raised an overload error and the second
\* having answered.
C1_Witness ==
    /\ RedditReturned
    /\ batch_failure = ""
    /\ Len(topics) = 2 /\ topics[1] # topics[2]
    /\ Len(agentHist) = 2
    /\ IsOverload(agentHist[1])
    /\ agentHist[2].type = "message"

\* C2: scrape_news returns a mapping under "news_analysis" with an entry for
\* every requested topic; every topic was processed, also after a failing
\* one; the entry of a topic (of its last occurrence in the list) is the
\* error string naming that topic when its try block raised, and its summary
\* when it did not.
C2_NewsPerTopicFailureContained ==
    NewsReturned =>
        LET m == results["news"].news_analysis IN
        /\ Keys(results["news"]) = {"news_analysis"}
        /\ Keys(m) = TopicSet(topics)
        /\ Len(newsHist) = Len(topics)
        /\ \A j \in 1..Len(topics) :
              IsLast(topics, j) =>
                  IF newsHist[j] = "failed"
                  THEN /\ m[topics[j]].kind = "Error fetching news for"
                       /\ m[topics[j]].topic = topics[j]
                  ELSE m[topics[j]] = Summary(topics[j])

\* C2 witness: the first of two different topics failed and the second was
\* summarized.
C2_Witness ==
    /\ NewsReturned
    /\ Len(topics) = 2 /\ topics[1] # topics[2]
    /\ newsHist = <<"failed", "ok">>

\* C3: the fallback synthesizer is invoked at most once; when the primary
\* synthesizer failed for a missing key or SDK, the request ends with the
\* fallback invoked exactly once and answers with the fallback's file (or
\* with the fallback's own error); when the primary failed with any other
\* error the fallback is never invoked and the request ends with that error.
C3_FallbackOnlyOnCapabilityFailure ==
    /\ calls["tts_to_audio"] <= 1
    /\ ("primary_capability" \in failed /\ pc = "done") =>
          /\ calls["tts_to_audio"] = 1
          /\ IF "gtts" \in failed
             THEN response = error_response("tts_to_audio")
             ELSE IF "audio_missing" \in failed
             THEN response = error_response("Audio file generation failed")
             ELSE /\ response.status = 200
                  /\ response.content = tts_to_audio("ok").value
    /\ "primary_service" \in failed =>
          /\ calls["tts_to_audio"] = 0
          /\ pc = "done"
          /\ response = error_response("text_to_audio_elevenlabs_sdk")

\* C3 witness: the primary synthesizer lacked a capability and the request
\* was answered with the fallback's audio.
C3_Witness ==
    /\ pc = "done"
    /\ "primary_capability" \in failed
    /\ response.status = 200
    /\ calls["tts_to_audio"] = 1

\* The failures that end a request with an error.
FatalFailures == {"compose", "primary_service", "gtts", "audio_missing"}

\* Some topic's news try block raised.
SomeNewsFailed == \E j \in 1..Len(newsHist) : newsHist[j] = "failed"

\* C4 as stated: a request ends in an error only when the script composer
\* failed or the fallback synthesizer failed.
C4_ErrorOnlyFromComposerOrFallback ==
    (pc = "done" /\ response.status = 500) =>
        ("compose" \in failed \/ "gtts" \in failed)

\* C4 amended: a request ends in an error exactly when the script composer
\* failed, the primary synthesizer failed with a non-capability error, the
\* fallback synthesizer failed, or the audio file was absent when the handler
\* looked for it; with none of these the request succeeds, whatever failed in
\* the adapters or for a missing capability of the primary synthesizer.
C4_ErrorExactlyOnFatalFailures ==
    pc = "done" =>
        /\ response.status \in {200, 500}
        /\ response.status = 500 <=> failed \cap FatalFailures # {}

\* C4 witness: a request that succeeded although a news topic failed, the
\* Reddit session could not be set up and the primary synthesizer had no key
\* or SDK.
C4_Witness ==
    /\ pc = "done"
    /\ response.status = 200
    /\ SomeNewsFailed
    /\ batch_failure \in InitSteps
    /\ "primary_capability" \in failed

\* The steps of Session-Init: opening the channel, opening the session and
\* its handshake, loading the tools.
SessionInitSteps == {"open_channel", "open_session", "initialize", "load_tools"}

\* C5: when a step of Session-Init raised, no agent invocation is ever made,
\* and the call returns for every requested topic exactly the placeholder
\* "Reddit data temporarily unavailable for <topic>".
C5_InitFailureGivesUniformPlaceholder ==
    batch_failure \in SessionInitSteps =>
        /\ calls["agent.ainvoke"] = 0
        /\ agentHist = << >>
        /\ RedditReturned =>
              RedditMapping = [t \in TopicSet(topics) |-> Unavailable(t)]

\* C5 witness: tool loading failed for a request of two different topics and
\* the call has returned.
C5_Witness ==
    /\ RedditReturned
    /\ batch_failure = "load_tools"
    /\ Len(topics) = 2 /\ topics[1] # topics[2]

\* The mappings the script composer reads from its arguments.
ComposerNews == DictGet(composer_args[1].news_data, "news_analysis", EmptyDict)

ComposerReddit == DictGet(composer_args[1].reddit_data, "reddit_analysis", EmptyDict)

\* C6: with source selection "news" scrape_reddit_topics is never invoked and
\* the Reddit mapping handed to the script composer is empty; with selection
\* "reddit" scrape_news is never invoked and the news mapping handed over is
\* empty.
C6_UnselectedAdapterNotInvoked ==
    /\ source_type = "news" =>
          /\ calls["scrape_reddit_topics"] = 0
          /\ calls["agent.ainvoke"] = 0
          /\ ~RedditReturned
          /\ composer_args # << >> =>
                (Keys(composer_args[1].reddit_data) = {} /\ Keys(ComposerReddit) = {})
    /\ source_type = "reddit" =>
          /\ calls["scrape_news"] = 0
          /\ ~NewsReturned
          /\ composer_args # << >> =>
                (Keys(composer_args[1].news_data) = {} /\ Keys(ComposerNews) = {})

\* C6 witness: a news-only request of two topics whose composer has been
\* called.
C6_Witness ==
    /\ source_type = "news"
    /\ Len(topics) = 2
    /\ composer_args # << >>
    /\ calls["scrape_news"] = 1

\* C7 as stated: after aggregation both mappings have exactly the requested
\* topics as keys, for every source selection.
C7_BothMappingsShareTopicDomain ==
    composer_args # << >> =>
        /\ Keys(ComposerNews) = TopicSet(topics)
        /\ Keys(ComposerReddit) = TopicSet(topics)

\* C7 amended: after aggregation the mapping of every selected source has
\* exactly the requested topics as keys, and the mapping of a source that is
\* not selected is empty.
C7_SelectedMappingsShareTopicDomain ==
    composer_args # << >> =>
        /\ Keys(ComposerNews) =
              IF source_type \in {"news", "both"} THEN TopicSet(topics) ELSE {}
        /\ Keys(ComposerReddit) =
              IF source_type \in {"reddit", "both"} THEN TopicSet(topics) ELSE {}

\* C7 witness: both sources selected for two different topics, the composer
\* called with two mappings over both topics.
C7_Witness ==
    /\ composer_args # << >>
    /\ source_type = "both"
    /\ Len(topics) = 2 /\ topics[1] # topics[2]
    /\ Keys(ComposerNews) = {topics[1], topics[2]}
    /\ Keys(ComposerReddit) = {topics[1], topics[2]}

\* Position j is the last processed occurrence of its topic.
LastProcessed(j) == \A k \in (j + 1)..Len(agentHist) : topics[k] # topics[j]

\* C8 as stated: whenever the agent's final message for a topic is shorter
\* than 50 characters, the entry of the topic in the returned mapping is the
\* "Limited Reddit discussion found for" placeholder.
C8_ShortReplyGivesLimitedPlaceholder ==
    RedditReturned =>
        \A j \in 1..Len(agentHist) :
            (IsShortMessage(agentHist[j]) /\ IsLast(topics, j)) =>
                RedditMapping[topics[j]] = Limited(topics[j])

\* C8 amended: whenever the agent's final message for a topic (at its last
\* occurrence in the list) is shorter than 50 characters, the loop stores the
\* "Limited Reddit discussion found for" placeholder for it, and the returned
\* mapping holds that placeholder when the loop's results are returned and
\* the "temporarily unavailable" placeholder when an exception left the
\* session scope; no returned entry is ever a raw content shorter than 50
\* characters.
C8_ShortReplyNeverStoredRaw ==
    /\ \A j \in 1..Len(agentHist) :
          (IsShortMessage(agentHist[j]) /\ LastProcessed(j)) =>
              /\ reddit_results[topics[j]] = Limited(topics[j])
              /\ RedditReturned =>
                    RedditMapping[topics[j]] =
                        IF batch_failure = "" THEN Limited(topics[j])
                                              ELSE Unavailable(topics[j])
    /\ RedditReturned =>
          \A t \in Keys(RedditMapping) :
              RedditMapping[t].kind = "content" => RedditMapping[t].len >= 50

\* C8 witness: the agent's final message for the second of two topics was
\* short and the call returned the loop's results with the placeholder.
C8_Witness ==
    /\ RedditReturned
    /\ batch_failure = ""
    /\ Len(agentHist) = 2 /\ topics[1] # topics[2]
    /\ IsShortMessage(agentHist[2])
    /\ agentHist[1].type = "message" /\ ~IsShortMessage(agentHist[1])
    /\ RedditMapping[topics[2]] = Limited(topics[2])

IsFlaggedLongMessage(o) ==
    /\ o.type = "message"
    /\ o.content.len >= 50
    /\ o.content.words \cap {"unable", "error"} # {}

\* C9: whenever the agent's final message for a topic contains "unable" or
\* "error" and is 50 characters or longer, the returned loop results hold
\* the "limited discussion found" placeholder for the topic instead of the
\* raw content.
C9_FlaggedReplyGivesLimitedPlaceholder ==
    (RedditReturned /\ batch_failure = "") =>
        \A j \in 1..Len(agentHist) :
            (IsFlaggedLongMessage(agentHist[j]) /\ IsLast(topics, j)) =>
                RedditMapping[topics[j]] = Limited(topics[j])

\* C10: once scrape_reddit_topics is at its return (the return statement's
\* value or the except block's) or has returned, neither the session nor the
\* channel is open; a channel that was opened is closed and a session that
\* was opened is closed.
C10_SessionReleasedBeforeReturn ==
    (RedditReturned \/ pc \in {"reddit_return", "reddit_except"}) =>
        /\ session # "open"
        /\ channel # "open"
        /\ batch_failure # "open_channel" => channel = "closed"
        /\ batch_failure \notin {"open_channel", "open_session"} => session = "closed"

\* C10 witness: the call returned after a loop over two topics in which an
\* agent call raised an overload error; session and channel are closed.
C10_Witness ==
    /\ RedditReturned
    /\ Len(agentHist) = 2
    /\ IsOverload(agentHist[1])
    /\ session = "closed"
    /\ channel = "closed"

\* ------------------------------------------------- C12
\* The positions of the request after the for loop of scrape_reddit_topics.
AfterRedditLoop ==
    {"exit_session", "exit_channel", "reddit_return", "reddit_except",
     "compose", "tts_primary", "tts_fallback", "check_audio", "done"}

\* What the except block of process_topic returns for a failure that is no
\* overload.
ReturnedFallback(t, o) ==
    IF "rate limit" \in o.msg THEN RateLimited(t) ELSE Technical(t)

\* C12: a failure of the agent call whose message holds "Overloaded" or
\* "429" is raised by process_topic (and the loop stores its own
\* unable-to-fetch text for the topic), every other failure of the agent call
\* is returned as a fallback text of the topic and not raised, and in neither
\* case does the loop stop: once it has been entered every topic is processed.
C12_OverloadRaisedOthersReturned ==
    /\ \A j \in 1..Len(agentHist) :
          agentHist[j].type = "error" =>
             /\ process_topic(topics[j], agentHist[j]).raised = IsOverload(agentHist[j])
             /\ LastProcessed(j) =>
                    reddit_results[topics[j]] =
                       IF IsOverload(agentHist[j])
                       THEN UnableToFetch(topics[j])
                       ELSE ReturnedFallback(topics[j], agentHist[j])
    /\ (pc \in {"reddit_loop", "reddit_sleep"} => ~exc)
    /\ (pc \in AfterRedditLoop /\ calls["scrape_reddit_topics"] = 1
           /\ batch_failure \notin InitSteps)
          => Len(agentHist) = Len(topics)

C12_Witness ==
    /\ RedditReturned
    /\ batch_failure = ""
    /\ Len(agentHist) = 2
    /\ IsOverload(agentHist[1])
    /\ agentHist[2].type = "error"
    /\ ~IsOverload(agentHist[2])
    /\ RedditMapping[topics[2]] = ReturnedFallback(topics[2], agentHist[2])

\* ------------------------------------------------- C14
\* C14: when the loop of scrape_reddit_topics is about to invoke the agent
\* for a topic, the 5-second delay has been slept once after each of the
\* topics processed before it, whatever they gave.
C14_DelayBetweenAgentInvocations ==
    (pc = "reddit_loop" /\ i <= Len(topics))
       => calls["asyncio.sleep(5)"] = Len(agentHist)

\* ------------------------------------------------- C17
\* C17: when the language-model call of generate_broadcast_news raises, the
\* request is over with an error answer, neither synthesizer has been
\* invoked, and the handler holds and answers no script and no audio.
C17_ComposerFailureFailsRequest ==
    "compose" \in failed =>
       /\ pc = "done"
       /\ response.status = 500
       /\ calls["text_to_audio_elevenlabs_sdk"] = 0
       /\ calls["tts_to_audio"] = 0
       /\ news_summary = NoText
       /\ audio_path = NoText
       /\ DOMAIN response \cap {"content", "script"} = {}

C17_Witness ==
    /\ "compose" \in failed
    /\ calls["generate_broadcast_news"] = 1
    /\ pc = "done"

\* ------------------------------------------------- C18
\* C18: a request that entered tts_to_audio and is over answers with an error
\* when tts_to_audio raised or the output file is missing, and answers with
\* success only with the audio that tts_to_audio produced.
C18_FallbackFailureSurfaces ==
    (calls["tts_to_audio"] > 0 /\ pc = "done") =>
       /\ (failed \cap {"gtts", "audio_missing"} # {}) => response.status = 500
       /\ response.status = 200 =>
              /\ audio_path = [kind |-> "audio", by |-> "gtts"]
              /\ response.content = audio_path

C18_Witness ==
    /\ calls["tts_to_audio"] = 1
    /\ pc = "done"
    /\ "gtts" \in failed
    /\ response.status = 500

\* ------------------------------------------------- C20
\* C20: in scrape_news the 1-second cooldown has been slept once for every
\* processed topic, failed or not, whenever the loop is about to fetch the
\* next topic or to return, and the call returns only after all of them.
C20_CooldownAfterEveryNewsTopic ==
    /\ pc = "news_loop" => calls["asyncio.sleep(1)"] = Len(newsHist)
    /\ pc = "news_sleep" => calls["asyncio.sleep(1)"] = Len(newsHist) - 1
    /\ NewsReturned =>
          /\ Len(newsHist) = Len(topics)
          /\ calls["asyncio.sleep(1)"] = Len(topics)

C20_Witness ==
    /\ NewsReturned
    /\ Len(newsHist) = 2
    /\ newsHist[1] = "ok"
    /\ newsHist[2] = "failed"
    /\ calls["asyncio.sleep(1)"] = 2

\* ------------------------------------------------- C11
\* The lines of a returned string; the empty string has none.
OutputLines(out) == IF out = << >> THEN << >> ELSE split(out)

\* The input lines that hold a character other than whitespace.
NonEmptyInputLines(text) ==
    {k \in 1..Len(split(text)) :
        \E m \in 1..Len(split(text)[k]) : split(text)[k][m] \notin Whitespace}

\* C11: extract_headlines returns at most as many lines as its input has
\* non-empty lines, and the empty string for an input without a non-empty
\* line, the empty input included.
C11_NoMoreLinesThanNonEmptyInput ==
    extract_out # << >> =>
       /\ Len(OutputLines(extract_out[1])) <= Cardinality(NonEmptyInputLines(cleaned_text))
       /\ NonEmptyInputLines(cleaned_text) = {} => extract_out[1] = << >>
       /\ cleaned_text = << >> => extract_out[1] = << >>

C11_Witness ==
    /\ extract_out # << >>
    /\ Len(split(cleaned_text)) = 4
    /\ Cardinality(NonEmptyInputLines(cleaned_text)) = 3
    /\ Len(OutputLines(extract_out[1])) = 2

\* ------------------------------------------------- C19
\* out is lines with some of its elements left out.
IsOrderedSelection(out, ls) ==
    \E f \in [1..Len(out) -> 1..Len(ls)] :
        /\ \A k \in 1..Len(out) : out[k] = ls[f[k]]
        /\ \A k \in 1..(Len(out) - 1) : f[k] < f[k + 1]

\* C19 as claimed: the output holds the non-empty input lines in order with
\* at most one of them left out.
C19_AtMostOneLineOmitted ==
    extract_out # << >> =>
       LET ls == stripped_lines(cleaned_text)
           out == OutputLines(extract_out[1])
       IN /\ IsOrderedSelection(out, ls)
          /\ Len(ls) - Len(out) <= 1

\* C19, amended: the output holds non-empty input lines in input order and
\* leaves out one of every two: of n lines, n \div 2 are omitted.
C19_HalfOfTheLinesOmitted ==
    extract_out # << >> =>
       LET ls == stripped_lines(cleaned_text)
           out == OutputLines(extract_out[1])
       IN /\ IsOrderedSelection(out, ls)
          /\ Len(ls) - Len(out) = Len(ls) \div 2

C19_Witness ==
    /\ extract_out # << >>
    /\ Len(stripped_lines(cleaned_text)) = 4
    /\ Len(OutputLines(extract_out[1])) = 2

\* ------------------------------------------------- C16
\* The contents generate_broadcast_news was given for the topic at position j.
NewsOf(j) == DictGet(ComposerNews, topics[j], EmptyText)

RedditOf(j) == DictGet(ComposerReddit, topics[j], EmptyText)

\* The positions of the topics with some non-empty content.
WithContent == {j \in 1..Len(topics) : Truthy(NewsOf(j)) \/ Truthy(RedditOf(j))}

\* The k-th of them in the order of the topic list.
NthWithContent(k) ==
    CHOOSE j \in WithContent : Cardinality({m \in WithContent : m < j}) = k - 1

\* The pieces of the block of position j: heading, news, social.
PiecesOf(j) ==
    1 + (IF Truthy(NewsOf(j)) THEN 1 ELSE 0) + (IF Truthy(RedditOf(j)) THEN 1 ELSE 0)

\* Where the k-th block starts in the prompt: after the blocks before it and
\* one separator for each.
RECURSIVE BlockStart(_)
BlockStart(k) ==
    IF k = 1 THEN 1 ELSE BlockStart(k - 1) + PiecesOf(NthWithContent(k - 1)) + 1

\* C16: the prompt generate_broadcast_news builds holds one block for each
\* topic with a non-empty news or social content, in the order of the topic
\* list, and nothing for a topic with neither; a block is the heading of the
\* topic, then the news content under the news label, then the social content
\* under the social label; between two blocks, and nowhere else, stands the
\* separator.
C16_PromptBlocksInTopicOrder ==
    news_summary.kind = "script" =>
       LET prompt == news_summary.prompt
           n == Cardinality(WithContent)
       IN /\ Len(prompt) =
                IF n = 0 THEN 0 ELSE BlockStart(n) + PiecesOf(NthWithContent(n)) - 1
          /\ \A k \in 1..n :
                LET j == NthWithContent(k)
                    at == BlockStart(k)
                    social == at + (IF Truthy(NewsOf(j)) THEN 2 ELSE 1)
                IN /\ prompt[at] = [piece |-> "TOPIC", topic |-> topics[j]]
                   /\ Truthy(NewsOf(j)) =>
                         prompt[at + 1] =
                            [piece |-> "OFFICIAL NEWS CONTENT", text |-> NewsOf(j)]
                   /\ Truthy(RedditOf(j)) =>
                         prompt[social] =
                            [piece |-> "REDDIT DISCUSSION CONTENT", text |-> RedditOf(j)]
                   /\ k < n => prompt[at + PiecesOf(j)] = SEPARATOR

C16_Witness ==
    /\ news_summary.kind = "script"
    /\ Len(topics) = 2
    /\ topics[1] # topics[2]
    /\ WithContent = {2}
    /\ NewsOf(1) = EmptyText
    /\ NewsOf(2) = Summary(topics[2])
    /\ news_summary.prompt =
          <<[piece |-> "TOPIC", topic |-> topics[2]],
            [piece |-> "OFFICIAL NEWS CONTENT", text |-> Summary(topics[2])]>>

\* ------------------------------------------------- C13
\* C13: of the concurrent scrape_reddit_topics calls that share mcp_limiter,
\* at most one is inside agent.ainvoke at any time.
C13_AtMostOneInvocationInFlight == Cardinality(InFlight) <= 1

\* ------------------------------------------------- C15
\* C15: the files two requests synthesized to are distinct, the file of a
\* request holds that request's audio, and a request is served its own audio.
C15_DistinctAudioFiles ==
    /\ \A r1, r2 \in Requests :
          (r1 # r2 /\ req[r1].path # << >> /\ req[r2].path # << >>)
             => req[r1].path # req[r2].path
    /\ \A r \in Requests :
          /\ req[r].path # << >> => audio_dir[req[r].path[1]] = r
          /\ req[r].served # << >> => req[r].served = <<r>>

\* ------------------------------------------------- C23
\* What the loop of scrape_reddit_topics stores for the topic at position j.
LoopOutcome(j) ==
    LET r == process_topic(topics[j], agentHist[j])
    IN IF r.raised THEN UnableToFetch(topics[j]) ELSE r.value

\* C23: the mapping scrape_reddit_topics returns holds, for every topic, the
\* outcome of the loop for that topic (of its last position in the list) when
\* no exception left the session scope, and for every topic the "temporarily
\* unavailable" placeholder when one did, one raised while the session or the
\* channel is released after the loop included.
C23_ResultAllOrNothing ==
    RedditReturned =>
       /\ DOMAIN RedditMapping = TopicSet(topics)
       /\ IF batch_failure = ""
          THEN /\ Len(agentHist) = Len(topics)
               /\ \A j \in 1..Len(topics) :
                     LastProcessed(j) => RedditMapping[topics[j]] = LoopOutcome(j)
          ELSE \A t \in TopicSet(topics) : RedditMapping[t] = Unavailable(t)

C23_Witness ==
    /\ RedditReturned
    /\ batch_failure = "teardown"
    /\ Len(agentHist) = 2
    /\ topics[1] # topics[2]
    /\ reddit_results[topics[1]] = LoopOutcome(1)
    /\ \A t \in TopicSet(topics) : RedditMapping[t] = Unavailable(t)

\* ------------------------------------------------- C24
\* C24: for the non-empty stripped lines l1..ln of its input,
\* extract_headlines returns the lines l1, l3, l5, ... : (n + 1) \div 2 lines,
\* the k-th of which is the line at position 2k - 1.
C24_OddPositionedLines ==
    extract_out # << >> =>
       LET ls == stripped_lines(cleaned_text)
           out == OutputLines(extract_out[1])
       IN /\ Len(out) = (Len(ls) + 1) \div 2
          /\ \A k \in 1..Len(out) : out[k] = ls[2 * k - 1]

C24_Witness ==
    /\ extract_out # << >>
    /\ stripped_lines(cleaned_text) = << <<"a">>, <<"b">>, <<"b">> >>
    /\ OutputLines(extract_out[1]) = << <<"a">>, <<"b">> >>

\* ------------------------------------------------- C21
\* The positions of the request after generate_broadcast_news returned.
AfterCompose == {"tts_primary", "tts_fallback", "check_audio", "done"}

\* C21: each adapter is called at most once and the Reddit adapter only
\* after the news adapter, when selected, has returned;
\* generate_broadcast_news is called once, after every selected adapter has
\* returned; a synthesizer is called only after generate_broadcast_news has
\* returned the script.
C21_StagesInFixedSequence ==
    /\ calls["scrape_news"] <= 1
    /\ calls["scrape_reddit_topics"] <= 1
    /\ (calls["scrape_reddit_topics"] > 0 /\ NewsSelected(source_type)) => NewsReturned
    /\ calls["generate_broadcast_news"] <= 1
    /\ calls["generate_broadcast_news"] > 0 =>
          /\ NewsSelected(source_type) => NewsReturned
          /\ RedditSelected(source_type) => RedditReturned
    /\ pc \in AfterCompose => calls["generate_broadcast_news"] = 1
    /\ (calls["text_to_audio_elevenlabs_sdk"] + calls["tts_to_audio"] > 0) =>
          /\ calls["generate_broadcast_news"] = 1
          /\ news_summary.kind = "script"

C21_Witness ==
    /\ pc = "done"
    /\ source_type = "both"
    /\ Len(topics) = 2
    /\ NewsReturned
    /\ RedditReturned
    /\ calls["generate_broadcast_news"] = 1
    /\ calls["text_to_audio_elevenlabs_sdk"] = 1
    /\ response.status = 200

\* ------------------------------------------------- C22
\* The positions of a call between the entry and the exit of its async with
\* blocks.
InSessionScope == {"load_tools", "loop", "ainvoke", "exit_session"}

\* C22: of concurrent scrape_reddit_topics calls, each one inside its async
\* with blocks holds a session that it opened itself and that is open, so no
\* other call has closed it; an agent invocation in flight uses the tools of
\* the session of its own call; no two calls hold the same session.
C22_EachBatchOwnsItsSession ==
    /\ \A b \in Batches :
          batch[b].pc \in InSessionScope =>
             /\ batch[b].session \in DOMAIN sessions
             /\ sessions[batch[b].session].opened_by = b
             /\ sessions[batch[b].session].state = "open"
    /\ \A b \in InFlight :
          /\ batch[b].tools = batch[b].session
          /\ sessions[batch[b].tools].opened_by = b
          /\ sessions[batch[b].tools].state = "open"
    /\ \A b1, b2 \in Batches :
          (b1 # b2 /\ batch[b1].session # 0) => batch[b1].session # batch[b2].session

C22_Witness ==
    /\ InFlight = {1}
    /\ batch[2].pc = "done"
    /\ batch[2].session # 0
    /\ sessions[batch[2].session].state = "closed"
    /\ sessions[batch[1].session].state = "open"

\* ------------------------------------------------- C25
\* C25: download_audio answers 403 for a file name that resolves outside the
\* audio directory, 404 for one inside it that does not exist, and 200 only
\* for an existing file directly in the audio directory.
C25_DownloadStatuses ==
    download.status # 0 =>
       LET asked == AUDIO_PATH \o path_param
           inside == parent(resolve(asked)) = CWD \o AUDIO_PATH
           there == path_exists(asked, disk)
       IN /\ ~inside => download.status = 403
          /\ (inside /\ ~there) => download.status = 404
          /\ download.status = 200 =>
                (inside /\ there /\ resolve(asked) \in disk)

====
